---- MODULE Spec2Model ----
(***************************************************************************)
(* Model of src/index.py: a Flask service that mediates a two-party        *)
(* negotiation.  The registry `negotiations` is a module-level dict that   *)
(* every request handler reads and writes without any lock; app.run()     *)
(* serves each request on its own thread, so handlers interleave between  *)
(* their accesses to the registry.  Each action below is one such access  *)
(* (with the purely local computation around it).                         *)
(*                                                                         *)
(* The oracle's reply is modelled as a sequence of lexical tokens         *)
(* separated by blanks; extract_json and generate_verdict are operators   *)
(* that scan and parse that sequence the way the code does.               *)
(***************************************************************************)
EXTENDS Integers, Sequences, FiniteSets, TLC

\* ------------------------------------------------------------------------
\* Program constants and bounds
\* ------------------------------------------------------------------------
Quota == 5
Total == 10

MaxMessages == 10
MaxLen == 4

MaxOverlaps == 1

MaxOther == 3

Threads == {1, 2}
Ids == {"n1"}
UnknownIds == {"n0"}
OtherIds == {"n2"}
NoId == "none"
Speakers == {"user1", "user2"}
Texts == {"offer A"}

\* ------------------------------------------------------------------------
\* Oracle text: tokens
\* ------------------------------------------------------------------------
\* fence is a code-fence marker (three backticks, optionally followed by
\* json), nl a newline, sp a blank, prose a word of free text.  A member
\* token is a run of "key": value members of a JSON object:
\*   both   "summary": "S", "compromise": "C"
\*   blank  "summary": "", "compromise": null
\*   sumS   "summary": "S"
\*   other  "other": "x"
\* A literal token is one Python literal: int (42), str ('s') or list ([1]).
Fence == "fence"
NL == "nl"
SP == "sp"
Members == {"both", "blank", "sumS", "other"}
Literals == {"int", "str", "list"}
Alphabet == {Fence, NL, "{", "}", ",", "prose"} \cup Members \cup Literals

\* A JSON / Python value as the verdict carries it.
Str(s) == [t |-> "string", v |-> s]
Null == [t |-> "null", v |-> ""]
Absent == [t |-> "absent", v |-> ""]

\* The value a member token gives to key k, Absent when it has no such key.
MemberValue(tok, k) ==
    CASE tok = "both" -> IF k = "summary" THEN Str("S") ELSE Str("C")
      [] tok = "blank" -> IF k = "summary" THEN Str("") ELSE Null
      [] tok = "sumS" -> IF k = "summary" THEN Str("S") ELSE Absent
      [] OTHER -> Absent

\* A parsed Python object: kind is dict, seq (list or tuple), int, str, or
\* raise (the parse raised); a dict carries the values of its two keys of
\* interest, Absent when the key is missing.
Obj(k, s, c) == [kind |-> k, summary |-> s, compromise |-> c]
Raised == Obj("raise", Absent, Absent)

\* ------------------------------------------------------------------------
\* extract_json
\* ------------------------------------------------------------------------
RECURSIVE RemoveFences(_)
RemoveFences(text) ==
    IF text = <<>> THEN <<>>
    ELSE IF Head(text) = Fence THEN RemoveFences(Tail(text))
    ELSE <<Head(text)>> \o RemoveFences(Tail(text))

IsSpace(tok) == tok \in {NL, SP}

RECURSIVE LStrip(_)
LStrip(text) ==
    IF text # <<>> /\ IsSpace(Head(text)) THEN LStrip(Tail(text)) ELSE text

RECURSIVE RStrip(_)
RStrip(text) ==
    IF text # <<>> /\ IsSpace(text[Len(text)])
    THEN RStrip(SubSeq(text, 1, Len(text) - 1)) ELSE text

Strip(text) == RStrip(LStrip(text))

\* re.search(r"\{.*\}", text, re.DOTALL): leftmost "{", then greedily up to
\* the last "}" behind it.  <<>> stands for no match.
BraceSpan(text) ==
    LET opens == {i \in 1..Len(text) : text[i] = "{"}
        closes == {j \in 1..Len(text) : text[j] = "}"}
    IN IF opens = {} THEN <<>>
       ELSE LET first == CHOOSE i \in opens : \A k \in opens : i <= k
                after == {j \in closes : j > first}
            IN IF after = {} THEN <<>>
               ELSE LET last == CHOOSE j \in after : \A k \in after : k <= j
                    IN SubSeq(text, first, last)

\* .replace('\n', ' ')
ReplaceNL(text) == [i \in 1..Len(text) |-> IF text[i] = NL THEN SP ELSE text[i]]

NotSpace(tok) == ~IsSpace(tok)

\* The value of key k in the parsed object: a later member overrides an
\* earlier one; Absent when no member has the key.
LastValue(members, k) ==
    LET at == {i \in 1..Len(members) :
                  members[i] \in Members /\ MemberValue(members[i], k) # Absent}
    IN IF at = {} THEN Absent
       ELSE MemberValue(members[CHOOSE i \in at : \A j \in at : j <= i], k)

\* json.loads on a text that starts with "{": an object is "{", members
\* separated by single commas, "}"; blanks between tokens are skipped.
JsonLoads(text) ==
    LET toks == SelectSeq(text, NotSpace)
        n == Len(toks)
        inner == IF n >= 2 THEN SubSeq(toks, 2, n - 1) ELSE <<>>
        m == Len(inner)
        wellFormed ==
            /\ n >= 2
            /\ toks[1] = "{"
            /\ toks[n] = "}"
            /\ \/ m = 0
               \/ /\ m % 2 = 1
                  /\ \A i \in 1..m : IF i % 2 = 1 THEN inner[i] \in Members
                                                  ELSE inner[i] = ","
    IN IF wellFormed
       THEN Obj("dict", LastValue(inner, "summary"), LastValue(inner, "compromise"))
       ELSE Raised

\* Adjacent string literals are one string literal.
RECURSIVE JoinStrings(_)
JoinStrings(text) ==
    IF Len(text) < 2 THEN text
    ELSE IF text[1] = "str" /\ text[2] = "str" THEN JoinStrings(Tail(text))
    ELSE <<Head(text)>> \o JoinStrings(Tail(text))

\* ast.literal_eval on a text without a brace span: one literal, or
\* literals separated by commas (a tuple, a trailing comma allowed).
LiteralEval(text) ==
    LET toks == JoinStrings(text)
        n == Len(toks)
        last == IF n > 0 /\ toks[n] = "," THEN n - 1 ELSE n
        tupleShape ==
            /\ last >= 1
            /\ last % 2 = 1
            /\ \A i \in 1..last : IF i % 2 = 1 THEN toks[i] \in Literals
                                               ELSE toks[i] = ","
    IN IF n = 1 /\ toks[1] \in Literals
       THEN CASE toks[1] = "int" -> Obj("int", Absent, Absent)
              [] toks[1] = "str" -> Obj("str", Absent, Absent)
              [] OTHER -> Obj("seq", Absent, Absent)
       ELSE IF tupleShape THEN Obj("seq", Absent, Absent)
       ELSE Raised

ErrorParsing ==
    Obj("dict", Str("Error parsing response."),
        Str("Could not extract valid JSON from the model response."))

extract_json(text) ==
    LET stripped == Strip(RemoveFences(text))
        span == BraceSpan(stripped)
        parsed == IF span # <<>> THEN JsonLoads(ReplaceNL(span))
                  ELSE LiteralEval(stripped)
    IN IF parsed.kind = "raise" THEN ErrorParsing ELSE parsed

\* ------------------------------------------------------------------------
\* generate_verdict
\* ------------------------------------------------------------------------
Verdict(s, c) == [summary |-> s, compromise |-> c]
NoVerdict == Verdict(Absent, Absent)

FallbackVerdict ==
    Verdict(Str("Failed to generate proper verdict format."),
            Str("Please try again with clearer negotiation points."))

DecodeErrorVerdict ==
    Verdict(Str("Error parsing AI response."),
            Str("The negotiation was processed, but a structured verdict could not be generated. Please try again."))

ExceptionVerdict(detail) ==
    Verdict(Str("Error generating verdict."), Str(detail))

StatusVerdict ==
    Verdict(Str("API request failed."), Str("Status code: 500. Error: body"))

\* VerdictFrom with the test for the required fields failing only when both
\* are missing.
VerdictFrom_BothMissing(json_text) ==
    CASE json_text.kind = "str" -> DecodeErrorVerdict
      [] json_text.kind = "int" ->
            ExceptionVerdict("An error occurred: argument of type 'int' is not iterable")
      [] json_text.kind = "seq" -> FallbackVerdict
      [] OTHER ->
            IF json_text.summary = Absent /\ json_text.compromise = Absent
            THEN FallbackVerdict
            ELSE Verdict(json_text.summary, json_text.compromise)

\* Lines 158-179: the object extract_json gave, turned into the verdict.
VerdictFrom(json_text) ==
    CASE json_text.kind = "str" -> DecodeErrorVerdict
      [] json_text.kind = "int" ->
            ExceptionVerdict("An error occurred: argument of type 'int' is not iterable")
      [] json_text.kind = "seq" -> FallbackVerdict
      [] OTHER ->
            IF json_text.summary = Absent \/ json_text.compromise = Absent
            THEN FallbackVerdict
            ELSE Verdict(json_text.summary, json_text.compromise)

\* What the call of the oracle can give: requests.post raises, the service
\* answers with a status other than 200, the body has no "choices", or the
\* body carries a content text.
Outcome(k, text) == [kind |-> k, text |-> text]

\* generate_verdict with the handlers of a failed call answering with the
\* fixed fallback instead of the failure detail.
generate_verdict_NoDetail(outcome) ==
    IF outcome.kind \in {"exception", "status", "nochoices"} THEN FallbackVerdict
    ELSE VerdictFrom(extract_json(outcome.text))

generate_verdict(outcome) ==
    CASE outcome.kind = "exception" ->
            ExceptionVerdict("An error occurred: ConnectionError")
      [] outcome.kind = "status" -> StatusVerdict
      [] outcome.kind = "nochoices" ->
            ExceptionVerdict("An error occurred: 'choices'")
      [] OTHER -> VerdictFrom(extract_json(outcome.text))

OracleFailures == {Outcome("exception", <<>>), Outcome("status", <<>>),
                   Outcome("nochoices", <<>>)}

\* The replies the oracle gives in the service model.
OracleTexts == {<<"{", "both", "}">>,
                <<"prose">>,
                <<"{", "blank", "}">>,
                <<"{", "sumS", "}">>}

OracleOutcomes == OracleFailures \cup {Outcome("content", x) : x \in OracleTexts}

\* ------------------------------------------------------------------------
\* State
\* ------------------------------------------------------------------------
VARIABLES
    negotiations,   \* the registry: negotiation_id -> session
    pc,             \* per thread: where its handler stands
    loc,            \* per thread: the handler's local variables
    resp,           \* the response the last step sent, NoResp if it sent none
    overlaps,       \* number of requests begun while another was in flight
    issued,         \* the ids that a response has told a client
    accepted,       \* history: per id and speaker, number of POSTs answered 200
    completions,    \* history: per id, number of "completed" POST responses
    raw,            \* a content text of the oracle given to generate_verdict
    result          \* <<the verdict generate_verdict made of raw>>, <<>> before

vars == <<negotiations, pc, loc, resp, overlaps, issued, accepted, completions, raw, result>>

\* Lines 55-60.
NewSession ==
    [messages |-> <<>>, user1_count |-> 0, user2_count |-> 0, total_count |-> 0]

Msg(speaker, message) == [speaker |-> speaker, message |-> message]

IdleLoc ==
    [nid |-> NoId, speaker |-> "", message |-> "", tmp |-> 0,
     sent |-> 0, u1 |-> 0, u2 |-> 0]

\* A response: the HTTP status code and the fields of the JSON body, with
\* the route and thread that sent it and the kind of outcome the oracle
\* gave while it was made ("" when the oracle was not called).
Resp(code, status, error) ==
    [code |-> code, status |-> status, error |-> error, thread |-> 0,
     route |-> "", oracle |-> "", nid |-> NoId,
     sent |-> 0, u1 |-> 0, u2 |-> 0, remaining |-> 0,
     verdict |-> NoVerdict, messages |-> <<>>]

NoResp == Resp(0, "", "")

Init ==
    /\ negotiations = <<>>
    /\ pc = [t \in Threads |-> "idle"]
    /\ loc = [t \in Threads |-> IdleLoc]
    /\ resp = NoResp
    /\ overlaps = 0
    /\ issued = {}
    /\ accepted = [id \in Ids |-> [sp \in Speakers |-> 0]]
    /\ completions = [id \in Ids |-> 0]
    /\ raw = <<>>
    /\ result = <<>>

CountField(speaker) == IF speaker = "user1" THEN "user1_count" ELSE "user2_count"

Session(t) == negotiations[loc[t].nid]

\* ------------------------------------------------------------------------
\* POST /negotiate
\* ------------------------------------------------------------------------
\* Lines 34-50: the checks on the request body, which touch no shared state.
\* NoResp when the body passes.
Validate(body, speaker, hasMessage) ==
    IF body = "malformed" THEN Resp(500, "", "request.json raised")
    ELSE IF body = "notdict" THEN Resp(400, "", "Invalid request format")
    ELSE IF speaker = "" \/ ~hasMessage
    THEN Resp(400, "", "Missing required fields: 'speaker' and 'message' are required")
    ELSE IF speaker \notin Speakers
    THEN Resp(400, "", "Speaker must be either 'user1' or 'user2'")
    ELSE NoResp

\* A request is served by the first free worker thread.
Free(t) ==
    /\ pc[t] = "idle"
    /\ \A u \in Threads : u < t => pc[u] # "idle"

\* The model follows at most MaxOverlaps requests that begin while another
\* one is in flight.
Begin(t) ==
    IF \E u \in Threads : pc[u] # "idle"
    THEN overlaps < MaxOverlaps /\ overlaps' = overlaps + 1
    ELSE UNCHANGED overlaps

Finish(t, route, r) ==
    /\ resp' = [r EXCEPT !.thread = t, !.route = route]
    /\ pc' = [pc EXCEPT ![t] = "idle"]
    /\ loc' = [loc EXCEPT ![t] = IdleLoc]

\* NegotiateInvalid with the session of a request without negotiation_id
\* made before the checks on speaker and message.
NegotiateInvalid_CreatingFirst(t) ==
    /\ Free(t)
    /\ \E body \in {"malformed", "notdict", "dict"},
          speaker \in Speakers \cup {"", "user3"},
          hasMessage \in BOOLEAN :
          /\ Validate(body, speaker, hasMessage) # NoResp
          /\ Finish(t, "POST", Validate(body, speaker, hasMessage))
          /\ IF body = "dict" /\ Ids \ DOMAIN negotiations # {}
             THEN \E new \in Ids \ DOMAIN negotiations :
                     negotiations' = [id \in DOMAIN negotiations \cup {new} |->
                                        IF id = new THEN NewSession ELSE negotiations[id]]
             ELSE UNCHANGED negotiations
    /\ Begin(t)
    /\ UNCHANGED <<issued, accepted, completions, raw, result>>

\* A request that fails the checks of lines 34-50.
NegotiateInvalid(t) ==
    /\ Free(t)
    /\ \E body \in {"malformed", "notdict", "dict"},
          speaker \in Speakers \cup {"", "user3"},
          hasMessage \in BOOLEAN :
          /\ Validate(body, speaker, hasMessage) # NoResp
          /\ Finish(t, "POST", Validate(body, speaker, hasMessage))
    /\ Begin(t)
    /\ UNCHANGED <<issued, negotiations, accepted, completions, raw, result>>

Enter(t, nid, speaker, message) ==
    /\ Begin(t)
    /\ loc' = [loc EXCEPT ![t] = [IdleLoc EXCEPT !.nid = nid, !.speaker = speaker,
                                                 !.message = message]]
    /\ pc' = [pc EXCEPT ![t] = "check"]
    /\ resp' = NoResp

\* Lines 53-60: a well-formed request without negotiation_id creates a
\* session under a fresh uuid.
NegotiateCreate(t) ==
    /\ Free(t)
    /\ \E speaker \in Speakers, message \in Texts, new \in Ids \ DOMAIN negotiations :
          /\ Validate("dict", speaker, message # "") = NoResp
          /\ negotiations' = [id \in DOMAIN negotiations \cup {new} |->
                                IF id = new THEN NewSession ELSE negotiations[id]]
          /\ Enter(t, new, speaker, message)
    /\ UNCHANGED <<issued, accepted, completions, raw, result>>

\* The ids a client can name: one a response has told, or one of no session
\* (a uuid4 is not guessed), among them one that no session ever gets.
Nameable == issued \cup (Ids \ DOMAIN negotiations) \cup UnknownIds

\* Lines 61-62: a well-formed request that names a negotiation_id.
NegotiateLookup(t) ==
    /\ Free(t)
    /\ \E speaker \in Speakers, message \in Texts, nid \in Nameable :
          /\ Validate("dict", speaker, message # "") = NoResp
          /\ IF nid \notin DOMAIN negotiations
             THEN /\ Finish(t, "POST", [Resp(404, "", "Negotiation with ID not found")
                                            EXCEPT !.nid = nid])
                  /\ Begin(t)
             ELSE Enter(t, nid, speaker, message)
    /\ UNCHANGED <<issued, negotiations, accepted, completions, raw, result>>

QuotaError(speaker) ==
    IF speaker = "user1" THEN "User1 has already sent 5 messages"
    ELSE "User2 has already sent 5 messages"

\* QuotaReached with the limit off by one.
QuotaReached_OffByOne(session, speaker) == session[CountField(speaker)] > Quota

QuotaReached(session, speaker) == session[CountField(speaker)] >= Quota

\* Lines 64-68.
CheckQuota(t) ==
    /\ pc[t] = "check"
    /\ IF QuotaReached(Session(t), loc[t].speaker)
       THEN Finish(t, "POST", Resp(400, "", QuotaError(loc[t].speaker)))
       ELSE /\ pc' = [pc EXCEPT ![t] = "append"]
            /\ resp' = NoResp
            /\ UNCHANGED loc
    /\ UNCHANGED <<issued, overlaps, negotiations, accepted, completions, raw, result>>

\* AppendMessage with the message put at the head of the list.
AppendMessage_AtHead(t) ==
    /\ pc[t] = "append"
    /\ Len(Session(t).messages) < MaxMessages
    /\ negotiations' = [negotiations EXCEPT ![loc[t].nid].messages =
                            <<Msg(loc[t].speaker, loc[t].message)>> \o @]
    /\ pc' = [pc EXCEPT ![t] = "load_count"]
    /\ resp' = NoResp
    /\ UNCHANGED <<issued, overlaps, loc, accepted, completions, raw, result>>

\* Lines 70-74.  The model follows a session up to MaxMessages messages.
AppendMessage(t) ==
    /\ pc[t] = "append"
    /\ Len(Session(t).messages) < MaxMessages
    /\ negotiations' = [negotiations EXCEPT ![loc[t].nid].messages =
                            Append(@, Msg(loc[t].speaker, loc[t].message))]
    /\ pc' = [pc EXCEPT ![t] = "load_count"]
    /\ resp' = NoResp
    /\ UNCHANGED <<issued, overlaps, loc, accepted, completions, raw, result>>

\* Lines 77-80, the read of  count += 1.
LoadCount(t) ==
    /\ pc[t] = "load_count"
    /\ loc' = [loc EXCEPT ![t].tmp = Session(t)[CountField(loc[t].speaker)]]
    /\ pc' = [pc EXCEPT ![t] = "store_count"]
    /\ resp' = NoResp
    /\ UNCHANGED <<issued, overlaps, negotiations, accepted, completions, raw, result>>

\* Lines 77-80, the write of  count += 1.
StoreCount(t) ==
    /\ pc[t] = "store_count"
    /\ negotiations' = [negotiations EXCEPT
                            ![loc[t].nid][CountField(loc[t].speaker)] = loc[t].tmp + 1]
    /\ pc' = [pc EXCEPT ![t] = "load_total"]
    /\ resp' = NoResp
    /\ UNCHANGED <<issued, overlaps, loc, accepted, completions, raw, result>>

\* Line 82, the read of  total_count += 1.
LoadTotal(t) ==
    /\ pc[t] = "load_total"
    /\ loc' = [loc EXCEPT ![t].tmp = Session(t).total_count]
    /\ pc' = [pc EXCEPT ![t] = "store_total"]
    /\ resp' = NoResp
    /\ UNCHANGED <<issued, overlaps, negotiations, accepted, completions, raw, result>>

\* Line 82, the write of  total_count += 1.
StoreTotal(t) ==
    /\ pc[t] = "store_total"
    /\ negotiations' = [negotiations EXCEPT ![loc[t].nid].total_count = loc[t].tmp + 1]
    /\ pc' = [pc EXCEPT ![t] = "test"]
    /\ resp' = NoResp
    /\ UNCHANGED <<issued, overlaps, loc, accepted, completions, raw, result>>

IsTenth(session) == session.total_count = Total

\* Line 85.
TestTotal(t) ==
    /\ pc[t] = "test"
    /\ pc' = [pc EXCEPT ![t] = IF IsTenth(Session(t)) THEN "verdict" ELSE "report_sent"]
    /\ resp' = NoResp
    /\ UNCHANGED <<issued, overlaps, negotiations, loc, accepted, completions, raw, result>>

\* A POST answered 200: its response tells the client the negotiation_id.
Accept(t) ==
    /\ accepted' = [accepted EXCEPT ![loc[t].nid][loc[t].speaker] = @ + 1]
    /\ issued' = issued \cup {loc[t].nid}

CompletedResponse(t, outcome) ==
    [Resp(200, "completed", "") EXCEPT !.nid = loc[t].nid, !.oracle = outcome.kind,
                                       !.verdict = generate_verdict(outcome)]

\* ReturnVerdict with the verdict kept on the session.
ReturnVerdict_Caching(t) ==
    /\ pc[t] = "verdict"
    /\ \E outcome \in OracleOutcomes :
          /\ Finish(t, "POST", CompletedResponse(t, outcome))
          /\ negotiations' =
                [negotiations EXCEPT ![loc[t].nid] =
                    [messages |-> @.messages, user1_count |-> @.user1_count,
                     user2_count |-> @.user2_count, total_count |-> @.total_count,
                     verdict |-> generate_verdict(outcome)]]
    /\ Accept(t)
    /\ completions' = [completions EXCEPT ![loc[t].nid] = @ + 1]
    /\ UNCHANGED <<overlaps, raw, result>>

\* Lines 86-96: the oracle is called and its verdict returned.
ReturnVerdict(t) ==
    /\ pc[t] = "verdict"
    /\ \E outcome \in OracleOutcomes :
          Finish(t, "POST", CompletedResponse(t, outcome))
    /\ Accept(t)
    /\ completions' = [completions EXCEPT ![loc[t].nid] = @ + 1]
    /\ UNCHANGED <<overlaps, negotiations, raw, result>>

\* Line 102.
ReportSent(t) ==
    /\ pc[t] = "report_sent"
    /\ loc' = [loc EXCEPT ![t].sent = Session(t).total_count]
    /\ pc' = [pc EXCEPT ![t] = "report_user1"]
    /\ resp' = NoResp
    /\ UNCHANGED <<issued, overlaps, negotiations, accepted, completions, raw, result>>

\* Line 103.
ReportUser1(t) ==
    /\ pc[t] = "report_user1"
    /\ loc' = [loc EXCEPT ![t].u1 = Session(t).user1_count]
    /\ pc' = [pc EXCEPT ![t] = "report_user2"]
    /\ resp' = NoResp
    /\ UNCHANGED <<issued, overlaps, negotiations, accepted, completions, raw, result>>

\* Line 104.
ReportUser2(t) ==
    /\ pc[t] = "report_user2"
    /\ loc' = [loc EXCEPT ![t].u2 = Session(t).user2_count]
    /\ pc' = [pc EXCEPT ![t] = "report_remaining"]
    /\ resp' = NoResp
    /\ UNCHANGED <<issued, overlaps, negotiations, accepted, completions, raw, result>>

\* Lines 99-106: the last read (line 105) and the response.
ReturnProgress(t) ==
    /\ pc[t] = "report_remaining"
    /\ Finish(t, "POST", [Resp(200, "in_progress", "") EXCEPT
                      !.nid = loc[t].nid, !.sent = loc[t].sent,
                      !.u1 = loc[t].u1, !.u2 = loc[t].u2,
                      !.remaining = Total - Session(t).total_count])
    /\ Accept(t)
    /\ UNCHANGED <<overlaps, negotiations, completions, raw, result>>

\* ------------------------------------------------------------------------
\* GET /negotiation/<negotiation_id>
\* ------------------------------------------------------------------------
\* GetLookup with the session made on demand when the id is unknown.
GetLookup_Creating(t) ==
    /\ Free(t)
    /\ \E nid \in Nameable :
          IF nid \notin DOMAIN negotiations
          THEN /\ Finish(t, "GET", [Resp(404, "", "Negotiation not found")
                                        EXCEPT !.nid = nid])
               /\ Begin(t)
               /\ negotiations' = [id \in DOMAIN negotiations \cup {nid} |->
                                     IF id = nid THEN NewSession ELSE negotiations[id]]
          ELSE /\ Begin(t)
               /\ loc' = [loc EXCEPT ![t] = [IdleLoc EXCEPT !.nid = nid]]
               /\ pc' = [pc EXCEPT ![t] = "get_data"]
               /\ resp' = NoResp
               /\ UNCHANGED negotiations
    /\ UNCHANGED <<issued, accepted, completions, raw, result>>

\* Lines 222-225.
GetLookup(t) ==
    /\ Free(t)
    /\ \E nid \in Nameable :
          IF nid \notin DOMAIN negotiations
          THEN /\ Finish(t, "GET", [Resp(404, "", "Negotiation not found")
                                        EXCEPT !.nid = nid])
               /\ Begin(t)
          ELSE /\ Begin(t)
               /\ loc' = [loc EXCEPT ![t] = [IdleLoc EXCEPT !.nid = nid]]
               /\ pc' = [pc EXCEPT ![t] = "get_data"]
               /\ resp' = NoResp
    /\ UNCHANGED <<issued, negotiations, accepted, completions, raw, result>>

\* Lines 227-235: response_data is built from the session's counters.
GetData(t) ==
    /\ pc[t] = "get_data"
    /\ loc' = [loc EXCEPT ![t].sent = Session(t).total_count,
                          ![t].u1 = Session(t).user1_count,
                          ![t].u2 = Session(t).user2_count]
    /\ pc' = [pc EXCEPT ![t] = "get_verdict"]
    /\ resp' = NoResp
    /\ UNCHANGED <<issued, overlaps, negotiations, accepted, completions, raw, result>>

Status(total_count) == IF total_count < Total THEN "in_progress" ELSE "completed"

Remaining(total_count) == IF Total - total_count > 0 THEN Total - total_count ELSE 0

\* Lines 237-242: the verdict is generated when total_count is 10, and the
\* response is serialized with the message list as it then is.
GetReturn(t) ==
    /\ pc[t] = "get_verdict"
    /\ \E outcome \in OracleOutcomes :
          Finish(t, "GET", [Resp(200, Status(loc[t].sent), "") EXCEPT
                      !.nid = loc[t].nid, !.sent = loc[t].sent,
                      !.u1 = loc[t].u1, !.u2 = loc[t].u2,
                      !.remaining = Remaining(loc[t].sent),
                      !.messages = Session(t).messages,
                      !.oracle = IF IsTenth(Session(t)) THEN outcome.kind ELSE "",
                      !.verdict = IF IsTenth(Session(t))
                                  THEN generate_verdict(outcome) ELSE NoVerdict])
    /\ UNCHANGED <<issued, overlaps, negotiations, accepted, completions, raw, result>>

Next ==
    \E t \in Threads :
        \/ NegotiateInvalid(t)
        \/ NegotiateCreate(t)
        \/ NegotiateLookup(t)
        \/ CheckQuota(t)
        \/ AppendMessage(t)
        \/ LoadCount(t)
        \/ StoreCount(t)
        \/ LoadTotal(t)
        \/ StoreTotal(t)
        \/ TestTotal(t)
        \/ ReturnVerdict(t)
        \/ ReportSent(t)
        \/ ReportUser1(t)
        \/ ReportUser2(t)
        \/ ReturnProgress(t)
        \/ GetLookup(t)
        \/ GetData(t)
        \/ GetReturn(t)

Spec == Init /\ [][Next]_vars

\* ------------------------------------------------------------------------
\* generate_verdict on its own, over every content text up to MaxLen tokens
\* ------------------------------------------------------------------------
RawTexts == UNION {[1..n -> Alphabet] : n \in 0..MaxLen}

InitExtract ==
    /\ negotiations = <<>>
    /\ pc = [t \in Threads |-> "idle"]
    /\ loc = [t \in Threads |-> IdleLoc]
    /\ resp = NoResp
    /\ overlaps = 0
    /\ issued = {}
    /\ accepted = [id \in Ids |-> [sp \in Speakers |-> 0]]
    /\ completions = [id \in Ids |-> 0]
    /\ raw \in RawTexts
    /\ result = <<>>

Extract ==
    /\ result = <<>>
    /\ result' = <<generate_verdict(Outcome("content", raw))>>
    /\ UNCHANGED <<negotiations, pc, loc, resp, overlaps, issued, accepted, completions, raw>>

NextExtract == Extract

SpecExtract == InitExtract /\ [][NextExtract]_vars

\* ------------------------------------------------------------------------
\* The registry with a second session: requests on a session that is one
\* message short of completion, interleaved with the creation of another
\* session and requests on it
\* ------------------------------------------------------------------------
\* A session after nine requests handled one after the other, user1 and
\* user2 in turn.
StartedSession ==
    [messages |-> [i \in 1..9 |-> Msg(IF i % 2 = 1 THEN "user1" ELSE "user2", "offer A")],
     user1_count |-> 5, user2_count |-> 4, total_count |-> 9]

InitRegistry ==
    /\ negotiations = [id \in Ids |-> StartedSession]
    /\ pc = [t \in Threads |-> "idle"]
    /\ loc = [t \in Threads |-> IdleLoc]
    /\ resp = NoResp
    /\ overlaps = 0
    /\ issued = Ids
    /\ accepted = [id \in Ids \cup OtherIds |->
                      IF id \in Ids THEN [sp \in Speakers |-> IF sp = "user1" THEN 5 ELSE 4]
                      ELSE [sp \in Speakers |-> 0]]
    /\ completions = [id \in Ids \cup OtherIds |-> 0]
    /\ raw = <<>>
    /\ result = <<>>

\* NegotiateCreateOther with the registry made anew around the new session.
NegotiateCreateOther_Replacing(t) ==
    /\ Free(t)
    /\ \E speaker \in Speakers, message \in Texts, new \in OtherIds \ DOMAIN negotiations :
          /\ Validate("dict", speaker, message # "") = NoResp
          /\ negotiations' = [id \in {new} |-> NewSession]
          /\ Enter(t, new, speaker, message)
    /\ UNCHANGED <<issued, accepted, completions, raw, result>>

\* Lines 53-60, for the next uuid the generator gives.
NegotiateCreateOther(t) ==
    /\ Free(t)
    /\ \E speaker \in Speakers, message \in Texts, new \in OtherIds \ DOMAIN negotiations :
          /\ Validate("dict", speaker, message # "") = NoResp
          /\ negotiations' = [id \in DOMAIN negotiations \cup {new} |->
                                IF id = new THEN NewSession ELSE negotiations[id]]
          /\ Enter(t, new, speaker, message)
    /\ UNCHANGED <<issued, accepted, completions, raw, result>>

\* Lines 70-74, the new session followed up to MaxOther messages.
AppendBounded(t) ==
    /\ loc[t].nid \in OtherIds => Len(Session(t).messages) < MaxOther
    /\ AppendMessage(t)

NextRegistry ==
    \E t \in Threads :
        \/ NegotiateInvalid(t)
        \/ NegotiateCreateOther(t)
        \/ NegotiateLookup(t)
        \/ CheckQuota(t)
        \/ AppendBounded(t)
        \/ LoadCount(t)
        \/ StoreCount(t)
        \/ LoadTotal(t)
        \/ StoreTotal(t)
        \/ TestTotal(t)
        \/ ReturnVerdict(t)
        \/ ReportSent(t)
        \/ ReportUser1(t)
        \/ ReportUser2(t)
        \/ ReturnProgress(t)
        \/ GetLookup(t)
        \/ GetData(t)
        \/ GetReturn(t)

SpecRegistry == InitRegistry /\ [][NextRegistry]_vars

\* ------------------------------------------------------------------------
\* Properties
\* ------------------------------------------------------------------------
Sessions == DOMAIN negotiations

InFlight(id) == \E t \in Threads : pc[t] # "idle" /\ loc[t].nid = id

Quiescent(id) == ~InFlight(id)

SentBy(messages, speaker) ==
    Cardinality({i \in 1..Len(messages) : messages[i].speaker = speaker})

\* C1: on every session exactly one accepted POST returns "completed", it is
\* the one whose message is the 10th of the list, and the list never gets an
\* 11th message.
C1_CompletedExactlyOnce ==
    \A id \in Sessions :
        /\ Len(negotiations[id].messages) <= 10
        /\ completions[id] <= 1
        /\ (Quiescent(id) /\ Len(negotiations[id].messages) >= 10) => completions[id] = 1
        /\ \A t \in Threads :
              (pc[t] = "verdict" /\ loc[t].nid = id) =>
                  /\ Len(negotiations[id].messages) = 10
                  /\ negotiations[id].messages[10].speaker = loc[t].speaker

\* C2: the quota check and the increment are atomic, so neither count ever
\* exceeds 5.
C2_CountsWithinQuota ==
    \A id \in Sessions :
        /\ negotiations[id].user1_count <= 5
        /\ negotiations[id].user2_count <= 5

\* C3: whenever a GET is about to read a session, user1_count + user2_count
\* and total_count both equal the number of messages in its list.
C3_CountsMatchMessages ==
    \A t \in Threads :
        pc[t] = "get_data" =>
            /\ Session(t).user1_count + Session(t).user2_count = Len(Session(t).messages)
            /\ Session(t).total_count = Len(Session(t).messages)

\* C4: whenever a GET is about to derive the status of a session, the session
\* counts as completed (total_count >= 10) exactly if both counts are 5.
C4_CompletedIffBothAtQuota ==
    \A t \in Threads :
        pc[t] = "get_data" =>
            ((Session(t).total_count >= 10) <=>
                (Session(t).user1_count = 5 /\ Session(t).user2_count = 5))

\* C5: once no request is in flight on a session, the length of its list,
\* total_count and user1_count + user2_count all equal the number of POSTs
\* answered 200, and the list holds each speaker's accepted messages once.
C5_NoLostUpdates ==
    \A id \in Sessions :
        Quiescent(id) =>
            LET s == negotiations[id]
                n == accepted[id]["user1"] + accepted[id]["user2"]
            IN /\ Len(s.messages) = n
               /\ s.total_count = n
               /\ s.user1_count + s.user2_count = n
               /\ \A sp \in Speakers : SentBy(s.messages, sp) = accepted[id][sp]

\* C6: the quota check answers 400 with the speaker's quota message exactly
\* when that speaker's count has reached 5, whatever the other count is, and
\* lets every request of a speaker below 5 through to the append.
C6_QuotaDecision ==
    [][\A t \in Threads :
          LET count == IF loc[t].speaker = "user1" THEN Session(t).user1_count
                                                    ELSE Session(t).user2_count
              text == IF loc[t].speaker = "user1"
                      THEN "User1 has already sent 5 messages"
                      ELSE "User2 has already sent 5 messages"
          IN (pc[t] = "check" /\ pc'[t] # "check") =>
                IF count >= 5
                THEN /\ pc'[t] = "idle"
                     /\ resp'.thread = t /\ resp'.code = 400 /\ resp'.error = text
                     /\ negotiations' = negotiations
                ELSE /\ pc'[t] = "append"
                     /\ resp'.code = 0]_vars

\* A speaker at 5 was just refused while the other speaker is below 5.
C6_Witness ==
    /\ resp.code = 400
    /\ resp.error = "User1 has already sent 5 messages"
    /\ \E id \in Sessions :
          /\ negotiations[id].user1_count = 5
          /\ negotiations[id].user2_count < 5

NonEmptyString(value) == value.t = "string" /\ value.v # ""

\* C7: whatever text the oracle gives, the verdict has summary and compromise
\* present as non-empty strings.
C7_VerdictWellFormed ==
    result # <<>> =>
        /\ NonEmptyString(result[1].summary)
        /\ NonEmptyString(result[1].compromise)

\* C8: when the oracle fails while a POST is being answered (transport
\* exception, status other than 200, body without choices), the response is
\* still 200 "completed", its verdict carries the failure detail, and the
\* step leaves the registry as it was.
C8_OracleFailureRecovered ==
    [][(resp'.route = "POST" /\ resp'.oracle \in {"exception", "status", "nochoices"}) =>
          /\ resp'.code = 200
          /\ resp'.status = "completed"
          /\ resp'.error = ""
          /\ negotiations' = negotiations
          /\ resp'.verdict =
                CASE resp'.oracle = "exception" ->
                        [summary |-> [t |-> "string", v |-> "Error generating verdict."],
                         compromise |-> [t |-> "string",
                                         v |-> "An error occurred: ConnectionError"]]
                  [] resp'.oracle = "status" ->
                        [summary |-> [t |-> "string", v |-> "API request failed."],
                         compromise |-> [t |-> "string",
                                         v |-> "Status code: 500. Error: body"]]
                  [] OTHER ->
                        [summary |-> [t |-> "string", v |-> "Error generating verdict."],
                         compromise |-> [t |-> "string",
                                         v |-> "An error occurred: 'choices'"]]]_vars

\* The 10th message of a session was just answered while the service behind
\* the oracle answered with an error status.
C8_Witness ==
    /\ resp.route = "POST"
    /\ resp.oracle = "status"
    /\ resp.status = "completed"
    /\ Len(negotiations[resp.nid].messages) = 10
    /\ negotiations[resp.nid].total_count = 10

\* C9 as stated: once a POST on a session was answered "completed", the
\* session holds a cached verdict.
C9_VerdictCached ==
    \A id \in Sessions :
        completions[id] >= 1 => "verdict" \in DOMAIN negotiations[id]

\* C9 as amended: the POST that is answered "completed" carries the verdict in
\* its response only; the step leaves the session as it was, and a session
\* never has other fields than its messages and its three counts.
C9_VerdictOnlyReturned ==
    [][(resp'.route = "POST" /\ resp'.status = "completed") =>
          /\ resp'.verdict # [summary |-> [t |-> "absent", v |-> ""],
                              compromise |-> [t |-> "absent", v |-> ""]]
          /\ negotiations' = negotiations
          /\ \A id \in DOMAIN negotiations' :
                DOMAIN negotiations'[id] =
                    {"messages", "user1_count", "user2_count", "total_count"}]_vars

\* A POST was just answered "completed" with the verdict made of a
\* well-formed reply.
C9_Witness ==
    /\ resp.route = "POST"
    /\ resp.status = "completed"
    /\ resp.verdict = [summary |-> [t |-> "string", v |-> "S"],
                       compromise |-> [t |-> "string", v |-> "C"]]
    /\ completions[resp.nid] >= 1

\* The two ways the extraction fails and the way the parsed object falls
\* short, read off the text.
StrictParseFails(text) ==
    LET span == BraceSpan(Strip(RemoveFences(text)))
    IN span # <<>> /\ JsonLoads(ReplaceNL(span)).kind = "raise"

LiteralParseFails(text) ==
    LET stripped == Strip(RemoveFences(text))
    IN BraceSpan(stripped) = <<>> /\ LiteralEval(stripped).kind = "raise"

ObjectLacksField(text) ==
    LET span == BraceSpan(Strip(RemoveFences(text)))
        parsed == JsonLoads(ReplaceNL(span))
    IN /\ span # <<>>
       /\ parsed.kind = "dict"
       /\ (parsed.summary.t = "absent" \/ parsed.compromise.t = "absent")

\* C10 as stated: when no brace span is found and the literal parse of the
\* whole text fails, or the parsed object lacks summary or compromise, the
\* verdict is the fixed "Failed to generate proper verdict format." one.
C10_FixedFallback ==
    (result # <<>> /\ (LiteralParseFails(raw) \/ ObjectLacksField(raw))) =>
        result[1] =
            [summary |-> [t |-> "string", v |-> "Failed to generate proper verdict format."],
             compromise |-> [t |-> "string",
                             v |-> "Please try again with clearer negotiation points."]]

\* C10 as amended: a parsed object that lacks summary or compromise gives the
\* fixed "Failed to generate proper verdict format." verdict; a brace span
\* that does not parse, or a text without brace span whose literal parse
\* fails, gives the "Error parsing response." verdict.
C10_FallbackByCause ==
    result # <<>> =>
        /\ ObjectLacksField(raw) =>
              result[1] =
                  [summary |-> [t |-> "string",
                                v |-> "Failed to generate proper verdict format."],
                   compromise |-> [t |-> "string",
                                   v |-> "Please try again with clearer negotiation points."]]
        /\ (StrictParseFails(raw) \/ LiteralParseFails(raw)) =>
              result[1] =
                  [summary |-> [t |-> "string", v |-> "Error parsing response."],
                   compromise |-> [t |-> "string",
                                   v |-> "Could not extract valid JSON from the model response."]]

\* The verdict was made of a fenced object that has a summary but no
\* compromise.
C10_Witness ==
    /\ raw = <<"fence", "{", "sumS", "}">>
    /\ result # <<>>
    /\ result[1].summary.v = "Failed to generate proper verdict format."

\* The tokens of prose and wrapping that may surround the object: words,
\* newlines, code fences, and the brace characters a prose can contain.
Wrapping == {Fence, NL, "prose", "{", "}"}

\* text is the object {"summary": "S", "compromise": "C"} at positions
\* i..i+2, with nothing but wrapping before and after it.
WrappedObject(text) ==
    \E i \in 1..Len(text) :
        /\ i + 2 <= Len(text)
        /\ SubSeq(text, i, i + 2) = <<"{", "both", "}">>
        /\ \A j \in 1..Len(text) : (j < i \/ j > i + 2) => text[j] \in Wrapping

\* C11: for every text that is the object {"summary": "S", "compromise": "C"}
\* wrapped in code fences and prose, prose with braces included, the verdict
\* is summary = S and compromise = C.
C11_RoundTrip ==
    (result # <<>> /\ WrappedObject(raw)) =>
        result[1] = [summary |-> [t |-> "string", v |-> "S"],
                     compromise |-> [t |-> "string", v |-> "C"]]

\* The number of POSTs on id that were answered 200.
AcceptedOn(id) == accepted[id]["user1"] + accepted[id]["user2"]

\* C12: every in_progress response of POST /negotiate has messages_sent =
\* user1_messages + user2_messages and messages_remaining = 10 -
\* messages_sent, with messages_sent the number of stored messages when no
\* other request is at work on the session; the response to the request that
\* created the session (the first one answered on its id) has counts 1 and 0
\* and messages_remaining 9.
C12_ProgressReportConsistent ==
    (resp.route = "POST" /\ resp.status = "in_progress") =>
        /\ resp.sent = resp.u1 + resp.u2
        /\ resp.remaining = 10 - resp.sent
        /\ Quiescent(resp.nid) => resp.sent = Len(negotiations[resp.nid].messages)
        /\ AcceptedOn(resp.nid) = 1 =>
              /\ {resp.u1, resp.u2} = {0, 1}
              /\ resp.remaining = 9

\* The part of C12 on the creating request alone.
FreshSessionReport ==
    (resp.route = "POST" /\ resp.status = "in_progress" /\ AcceptedOn(resp.nid) = 1) =>
        /\ resp.sent = 1
        /\ {resp.u1, resp.u2} = {0, 1}
        /\ resp.remaining = 9
        /\ Len(negotiations[resp.nid].messages) = 1

\* The step is one of a GET handler.
GetStep ==
    \/ resp'.route = "GET"
    \/ \E t \in Threads : pc'[t] \in {"get_data", "get_verdict"} /\ pc'[t] # pc[t]

\* C13: a request that names an id no session was created under is answered
\* 404 by GET and by POST: no handler gets past the lookup with such an id,
\* a 404 is given for an id without session only, with the route's message,
\* and no session appears under the id; and no step of a GET handler changes
\* the registry.
C13_UnknownIdNotFound ==
    [][/\ \A t \in Threads :
             pc'[t] # "idle" => loc'[t].nid \in DOMAIN negotiations'
                                /\ loc'[t].nid \notin {"n0"}
       /\ "n0" \notin DOMAIN negotiations'
       /\ resp'.code = 404 =>
             /\ resp'.nid \notin DOMAIN negotiations
             /\ negotiations' = negotiations
             /\ resp'.error = IF resp'.route = "GET" THEN "Negotiation not found"
                              ELSE "Negotiation with ID not found"
       /\ GetStep => negotiations' = negotiations]_vars

\* A GET on an id of no session was just answered 404 while another session
\* holds messages.
C13_Witness ==
    /\ resp.code = 404
    /\ resp.route = "GET"
    /\ resp.nid = "n0"
    /\ \E id \in Sessions : Len(negotiations[id].messages) >= 2

\* C14: every GET answered "completed" called the oracle and carries the
\* verdict made of what the oracle gave this time, and every GET answered
\* "in_progress" did not call the oracle and carries no verdict.
C14_VerdictOnReadIffCompleted ==
    (resp.route = "GET" /\ resp.code = 200) =>
        /\ resp.status = "completed" =>
              /\ resp.oracle # ""
              /\ resp.verdict # [summary |-> [t |-> "absent", v |-> ""],
                                 compromise |-> [t |-> "absent", v |-> ""]]
        /\ resp.status = "in_progress" =>
              /\ resp.oracle = ""
              /\ resp.verdict = [summary |-> [t |-> "absent", v |-> ""],
                                 compromise |-> [t |-> "absent", v |-> ""]]

\* Thread t is about to call the oracle on its session's messages (line 87
\* or line 239).
CallsOracle(t) ==
    \/ pc[t] = "verdict"
    \/ pc[t] = "get_verdict" /\ Session(t).total_count = 10

\* C15: whenever the oracle is called, the transcript it is given has exactly
\* 10 messages, 5 of user1 and 5 of user2, and both speakers' counts are at
\* the quota.
C15_OracleGetsFullTranscript ==
    \A t \in Threads :
        CallsOracle(t) =>
            /\ Len(Session(t).messages) = 10
            /\ SentBy(Session(t).messages, "user1") = 5
            /\ SentBy(Session(t).messages, "user2") = 5
            /\ Session(t).user1_count = 5
            /\ Session(t).user2_count = 5

\* C16: across every step the list of every session is kept as a prefix of
\* the new list; a step adds at most one message, at the end, and it is the
\* message of the request whose append the step is.
C16_AppendOnly ==
    [][\A id \in DOMAIN negotiations :
          /\ id \in DOMAIN negotiations'
          /\ LET old == negotiations[id].messages
                 new == negotiations'[id].messages
             IN /\ Len(old) <= Len(new)
                /\ Len(new) <= Len(old) + 1
                /\ \A i \in 1..Len(old) : new[i] = old[i]
                /\ Len(new) = Len(old) + 1 =>
                      \E t \in Threads :
                          /\ pc[t] = "append"
                          /\ pc'[t] = "load_count"
                          /\ loc[t].nid = id
                          /\ new[Len(new)] = [speaker |-> loc[t].speaker,
                                              message |-> loc[t].message]]_vars

\* A request of one speaker has just appended its message behind messages of
\* both speakers while another request is at work on the session.
C16_Witness ==
    \E t \in Threads, u \in Threads :
        /\ t # u
        /\ pc[t] = "load_count"
        /\ pc[u] \in {"append", "load_count", "store_count"}
        /\ loc[u].nid = loc[t].nid
        /\ LET m == Session(t).messages
           IN /\ Len(m) >= 3
              /\ m[Len(m)].speaker = loc[t].speaker
              /\ m[1].speaker # m[2].speaker

\* C17: the step that answers a POST with 400 or 404 leaves the registry as
\* it was, and so does the step before it of a request that named a
\* negotiation_id; a request refused at the quota check named an id that a
\* response had told, so it is not one that created its session.
C17_RefusalLeavesRegistry ==
    [][/\ (resp'.route = "POST" /\ resp'.code \in {400, 404}) =>
             /\ negotiations' = negotiations
             /\ \A t \in Threads :
                   (pc[t] = "check" /\ pc'[t] = "idle") => loc[t].nid \in issued
       /\ \A t \in Threads :
             (pc[t] = "idle" /\ pc'[t] = "check"
                 /\ loc'[t].nid \in DOMAIN negotiations) =>
                 negotiations' = negotiations]_vars

\* A POST with an unrecognized speaker was just refused while a session holds
\* messages and another request is at work on it.
C17_Witness ==
    /\ resp.route = "POST"
    /\ resp.code = 400
    /\ resp.error = "Speaker must be either 'user1' or 'user2'"
    /\ \E id \in Sessions :
          /\ Len(negotiations[id].messages) >= 1
          /\ InFlight(id)

\* C18: a step changes the messages and counts of at most one session, the
\* one of the request whose step it is; no session is ever removed; and the
\* step that creates a session puts an empty session under an id that had
\* none and leaves every existing session as it was.
C18_OnlyOwnSessionChanges ==
    [][/\ DOMAIN negotiations \subseteq DOMAIN negotiations'
       /\ \A id \in DOMAIN negotiations :
             negotiations'[id] # negotiations[id] =>
                 /\ \E t \in Threads :
                       pc[t] # "idle" /\ loc[t].nid = id /\ pc'[t] # pc[t]
                 /\ \A other \in DOMAIN negotiations \ {id} :
                       negotiations'[other] = negotiations[other]
       /\ \A id \in DOMAIN negotiations' \ DOMAIN negotiations :
             /\ negotiations'[id] = [messages |-> <<>>, user1_count |-> 0,
                                     user2_count |-> 0, total_count |-> 0]
             /\ \A other \in DOMAIN negotiations :
                   negotiations'[other] = negotiations[other]]_vars

\* A request has appended the 10th message of the first session and another
\* one is counting its message on the second session, which was created
\* while the first one existed.
C18_Witness ==
    \E t \in Threads, u \in Threads :
        /\ loc[t].nid = "n1"
        /\ loc[u].nid = "n2"
        /\ pc[t] \in {"load_count", "store_count", "load_total", "store_total"}
        /\ pc[u] \in {"store_count", "load_total", "store_total"}
        /\ Len(negotiations["n1"].messages) = 10
        /\ Len(negotiations["n2"].messages) >= 1

====
